---- MODULE Spec2Model ----
(***************************************************************************)
(* Model of the NeoFS HTTP gateway bootstrap and lifecycle layer:          *)
(*   settings()  (misc.go)  - the layered configuration resolver;          *)
(*   newApp()    (app.go)   - peer discovery and weight normalisation;     *)
(*   app.Serve / app.Wait   - the lifecycle coordinator and its shutdown   *)
(*                            watcher goroutine.                           *)
(* Each part has its own specification over the shared variables:          *)
(*   SpecSettings, SpecNewApp, Spec (lifecycle) and FairSpec (lifecycle    *)
(*   with the fairness of the Go scheduler).                               *)
(***************************************************************************)
EXTENDS Integers, Sequences, FiniteSets, TLC

(***************************************************************************)
(* Bounds of the model.                                                    *)
(***************************************************************************)
\* number of Serve invocations on one app instance
MaxServe == 2
\* number of goroutines that call Wait
MaxWaiters == 1
\* number of peer indices that may carry a configured address
MaxPeers == 3
\* values a configuration source may give to a key are 1..MaxVal
MaxVal == 2

Calls == 1..MaxServe
Waiters == 1..MaxWaiters

VARIABLES
    \* ---- lifecycle (app.go: app struct, Serve, Wait) ----
    tlsCertPath,   \* a.cfg.GetString(cfgTLSCertificate)
    tlsKeyPath,    \* a.cfg.GetString(cfgTLSKey)
    ctxDone,       \* ctx.Done() is closed
    webDone,       \* a.webDone: "open" or "closed"
    servePc,       \* position of each Serve invocation
    watcherPc,     \* position of the goroutine each Serve invocation starts
    stopResult,    \* value returned by a.webServer.Shutdown() to each watcher
    bindCall,      \* which bind call each Serve invocation has made
    listening,     \* Serve invocations whose listener is accepting connections
    waitPc,        \* position of each Wait caller
    exit,          \* "running", "fatal" (log.Fatal -> os.Exit) or "panic"
    \* ---- newApp peer loop (app.go:103-129) ----
    peerAddress,   \* cfg peers.<i>.address
    peerWeight,    \* cfg peers.<i>.weight
    i,             \* loop index
    nodes,         \* pb.AddNode calls so far
    newAppPc,
    \* ---- settings() (misc.go:89-203) ----
    osArgs,        \* what the argument vector holds
    environ,       \* HTTP_GW_* environment variables
    cfgFile,       \* content of the YAML file at the --config path
    v,             \* the viper store
    settingsPc,
    stdout,        \* what settings() has printed
    exitCode       \* status the process exited with, -1 while it runs

lifeVars == <<tlsCertPath, tlsKeyPath, ctxDone, webDone, servePc, watcherPc,
              stopResult, bindCall, listening, waitPc, exit>>
newAppVars == <<peerAddress, peerWeight, i, nodes, newAppPc>>
settingsVars == <<osArgs, environ, cfgFile, v, settingsPc, stdout, exitCode>>
vars == <<lifeVars, newAppVars, settingsVars>>
\* what a step of one part leaves alone
notLife == <<newAppVars, settingsVars>>
notNewApp == <<lifeVars, settingsVars>>
notSettings == <<lifeVars, newAppVars>>

(***************************************************************************)
(* Lifecycle coordinator: app.Serve and app.Wait.                          *)
(***************************************************************************)
Paths == {"", "path"}

\* newApp: webDone is a fresh channel, nothing runs yet.
InitLife ==
    /\ tlsCertPath \in Paths
    /\ tlsKeyPath \in Paths
    /\ ctxDone = FALSE
    /\ webDone = "open"
    /\ servePc = [c \in Calls |-> "idle"]
    /\ watcherPc = [c \in Calls |-> "unstarted"]
    /\ stopResult = [c \in Calls |-> "none"]
    /\ bindCall = [c \in Calls |-> "none"]
    /\ listening = {}
    /\ waitPc = [w \in Waiters |-> "idle"]
    /\ exit = "running"

\* The external cancellation of ctx; one-shot.
Cancel ==
    /\ UNCHANGED notLife
    /\ exit = "running"
    /\ ~ctxDone
    /\ ctxDone' = TRUE
    /\ UNCHANGED <<tlsCertPath, tlsKeyPath, webDone, servePc, watcherPc,
                   stopResult, bindCall, listening, waitPc, exit>>

\* Serve is entered: its first statement starts the watcher goroutine.
\* Invocations are numbered in the order they are made.
ServeCall(c) ==
    /\ UNCHANGED notLife
    /\ exit = "running"
    /\ servePc[c] = "idle"
    /\ \A d \in Calls : d < c => servePc[d] # "idle"
    /\ servePc' = [servePc EXCEPT ![c] = "spawned"]
    /\ watcherPc' = [watcherPc EXCEPT ![c] = "parked"]
    /\ UNCHANGED <<tlsCertPath, tlsKeyPath, ctxDone, webDone, stopResult,
                   bindCall, listening, waitPc, exit>>

\* uploader.New, downloader.New (a failure is fatal), then the router and
\* its routes.
ServeRoute(c) ==
    /\ UNCHANGED notLife
    /\ exit = "running"
    /\ servePc[c] = "spawned"
    /\ \E err \in BOOLEAN :
         IF err
           THEN /\ exit' = "fatal"
                /\ UNCHANGED servePc
           ELSE /\ servePc' = [servePc EXCEPT ![c] = "routed"]
                /\ UNCHANGED exit
    /\ UNCHANGED <<tlsCertPath, tlsKeyPath, ctxDone, webDone, watcherPc,
                   stopResult, bindCall, listening, waitPc>>

\* Variant of BindChoice: clear text as soon as one path is empty.
BindChoiceEither(cert, key) ==
    IF cert = "" \/ key = "" THEN "ListenAndServe" ELSE "ListenAndServeTLS"

\* if tlsCertPath == "" && tlsKeyPath == "" { ListenAndServe } else
\* { ListenAndServeTLS }
BindChoice(cert, key) ==
    IF cert = "" /\ key = "" THEN "ListenAndServe" ELSE "ListenAndServeTLS"

\* Whether the chosen call can start a listener: the TLS call loads the
\* key pair from both files, so it needs both paths.
CanBind(call, cert, key) ==
    call = "ListenAndServe" \/ (cert # "" /\ key # "")

\* Variant of ServeListen: the bind call runs on a goroutine of its own
\* and Serve returns at once.
ServeListenAsync(c) ==
    /\ UNCHANGED notLife
    /\ exit = "running"
    /\ servePc[c] = "routed"
    /\ LET call == BindChoice(tlsCertPath, tlsKeyPath) IN
         /\ bindCall' = [bindCall EXCEPT ![c] = call]
         /\ \E err \in BOOLEAN :
              IF err \/ ~CanBind(call, tlsCertPath, tlsKeyPath)
                THEN /\ exit' = "fatal"
                     /\ UNCHANGED <<servePc, listening>>
                ELSE /\ servePc' = [servePc EXCEPT ![c] = "returned"]
                     /\ listening' = listening \cup {c}
                     /\ UNCHANGED exit
    /\ UNCHANGED <<tlsCertPath, tlsKeyPath, ctxDone, webDone, watcherPc,
                   stopResult, waitPc>>

\* a.webServer.Handler = r.Handler, then the bind call, made on Serve's own
\* goroutine. A bind error is fatal; otherwise the listener accepts and the
\* call does not return while it does.
ServeListen(c) ==
    /\ UNCHANGED notLife
    /\ exit = "running"
    /\ servePc[c] = "routed"
    /\ LET call == BindChoice(tlsCertPath, tlsKeyPath) IN
         /\ bindCall' = [bindCall EXCEPT ![c] = call]
         /\ \E err \in BOOLEAN :
              IF err \/ ~CanBind(call, tlsCertPath, tlsKeyPath)
                THEN /\ exit' = "fatal"
                     /\ UNCHANGED <<servePc, listening>>
                ELSE /\ servePc' = [servePc EXCEPT ![c] = "serving"]
                     /\ listening' = listening \cup {c}
                     /\ UNCHANGED exit
    /\ UNCHANGED <<tlsCertPath, tlsKeyPath, ctxDone, webDone, watcherPc,
                   stopResult, waitPc>>

\* ListenAndServe returns nil once its listener has been closed; err is
\* nil, so Serve returns.
ServeReturn(c) ==
    /\ UNCHANGED notLife
    /\ exit = "running"
    /\ servePc[c] = "serving"
    /\ c \notin listening
    /\ servePc' = [servePc EXCEPT ![c] = "returned"]
    /\ UNCHANGED <<tlsCertPath, tlsKeyPath, ctxDone, webDone, watcherPc,
                   stopResult, bindCall, listening, waitPc, exit>>

\* The watcher receives from ctx.Done() and calls a.webServer.Shutdown().
\* Shutdown closes the listeners the server has at that moment. When a
\* close fails it returns the error at once, and any of the listeners may
\* be left accepting; otherwise it goes on to wait for the open
\* connections.
WatcherStop(c) ==
    /\ UNCHANGED notLife
    /\ exit = "running"
    /\ watcherPc[c] = "parked"
    /\ ctxDone
    /\ \E err \in BOOLEAN :
         IF err /\ listening # {}
           THEN /\ watcherPc' = [watcherPc EXCEPT ![c] = "stopped"]
                /\ stopResult' = [stopResult EXCEPT ![c] = "err"]
                /\ listening' \in SUBSET listening
           ELSE /\ watcherPc' = [watcherPc EXCEPT ![c] = "stopping"]
                /\ listening' = {}
                /\ UNCHANGED stopResult
    /\ UNCHANGED <<tlsCertPath, tlsKeyPath, ctxDone, webDone, servePc,
                   bindCall, waitPc, exit>>

\* Shutdown returns nil once the connections are drained.
WatcherStopReturn(c) ==
    /\ UNCHANGED notLife
    /\ exit = "running"
    /\ watcherPc[c] = "stopping"
    /\ watcherPc' = [watcherPc EXCEPT ![c] = "stopped"]
    /\ stopResult' = [stopResult EXCEPT ![c] = "nil"]
    /\ UNCHANGED <<tlsCertPath, tlsKeyPath, ctxDone, webDone, servePc,
                   bindCall, listening, waitPc, exit>>

\* Variant of WatcherClose: close(a.webDone) does not wait for Shutdown to
\* return.
WatcherCloseEarly(c) ==
    /\ UNCHANGED notLife
    /\ exit = "running"
    /\ watcherPc[c] \in {"stopping", "stopped"}
    /\ IF webDone = "closed"
         THEN /\ exit' = "panic"
              /\ watcherPc' = [watcherPc EXCEPT ![c] = "panicked"]
              /\ UNCHANGED webDone
         ELSE /\ webDone' = "closed"
              /\ watcherPc' = [watcherPc EXCEPT ![c] = "closed"]
              /\ UNCHANGED exit
    /\ UNCHANGED <<tlsCertPath, tlsKeyPath, ctxDone, servePc, stopResult,
                   bindCall, listening, waitPc>>

\* Variant of WatcherClose: a Shutdown error makes the watcher return
\* without closing a.webDone.
WatcherCloseIfNil(c) ==
    /\ UNCHANGED notLife
    /\ exit = "running"
    /\ watcherPc[c] = "stopped"
    /\ IF stopResult[c] = "err"
         THEN /\ watcherPc' = [watcherPc EXCEPT ![c] = "closed"]
              /\ UNCHANGED <<webDone, exit>>
         ELSE IF webDone = "closed"
           THEN /\ exit' = "panic"
                /\ watcherPc' = [watcherPc EXCEPT ![c] = "panicked"]
                /\ UNCHANGED webDone
           ELSE /\ webDone' = "closed"
                /\ watcherPc' = [watcherPc EXCEPT ![c] = "closed"]
                /\ UNCHANGED exit
    /\ UNCHANGED <<tlsCertPath, tlsKeyPath, ctxDone, servePc, stopResult,
                   bindCall, listening, waitPc>>

\* Variant of WatcherClose: the watcher loops and parks on ctx.Done() again.
WatcherCloseLoop(c) ==
    /\ UNCHANGED notLife
    /\ exit = "running"
    /\ watcherPc[c] = "stopped"
    /\ IF webDone = "closed"
         THEN /\ exit' = "panic"
              /\ watcherPc' = [watcherPc EXCEPT ![c] = "panicked"]
              /\ UNCHANGED webDone
         ELSE /\ webDone' = "closed"
              /\ watcherPc' = [watcherPc EXCEPT ![c] = "parked"]
              /\ UNCHANGED exit
    /\ UNCHANGED <<tlsCertPath, tlsKeyPath, ctxDone, servePc, stopResult,
                   bindCall, listening, waitPc>>

\* a.log.Info("shutting down web server", zap.Error(result)), then
\* close(a.webDone), and the goroutine ends. Closing a closed channel
\* panics.
WatcherClose(c) ==
    /\ UNCHANGED notLife
    /\ exit = "running"
    /\ watcherPc[c] = "stopped"
    /\ IF webDone = "closed"
         THEN /\ exit' = "panic"
              /\ watcherPc' = [watcherPc EXCEPT ![c] = "panicked"]
              /\ UNCHANGED webDone
         ELSE /\ webDone' = "closed"
              /\ watcherPc' = [watcherPc EXCEPT ![c] = "closed"]
              /\ UNCHANGED exit
    /\ UNCHANGED <<tlsCertPath, tlsKeyPath, ctxDone, servePc, stopResult,
                   bindCall, listening, waitPc>>

\* Wait: a.log.Info("starting application"), then the receive parks.
WaitCall(w) ==
    /\ UNCHANGED notLife
    /\ exit = "running"
    /\ waitPc[w] = "idle"
    /\ waitPc' = [waitPc EXCEPT ![w] = "parked"]
    /\ UNCHANGED <<tlsCertPath, tlsKeyPath, ctxDone, webDone, servePc,
                   watcherPc, stopResult, bindCall, listening, exit>>

\* <-a.webDone completes once the channel is closed.
WaitReturn(w) ==
    /\ UNCHANGED notLife
    /\ exit = "running"
    /\ waitPc[w] = "parked"
    /\ webDone = "closed"
    /\ waitPc' = [waitPc EXCEPT ![w] = "returned"]
    /\ UNCHANGED <<tlsCertPath, tlsKeyPath, ctxDone, webDone, servePc,
                   watcherPc, stopResult, bindCall, listening, exit>>

NextLife ==
    \/ Cancel
    \/ \E c \in Calls : ServeCall(c)
    \/ \E c \in Calls : ServeRoute(c)
    \/ \E c \in Calls : ServeListen(c)
    \/ \E c \in Calls : ServeReturn(c)
    \/ \E c \in Calls : WatcherStop(c)
    \/ \E c \in Calls : WatcherStopReturn(c)
    \/ \E c \in Calls : WatcherClose(c)
    \/ \E w \in Waiters : WaitCall(w)
    \/ \E w \in Waiters : WaitReturn(w)

(***************************************************************************)
(* Properties of the lifecycle coordinator.                                *)
(***************************************************************************)
Started == {c \in Calls : servePc[c] # "idle"}
\* the watcher has received from ctx.Done() and called Shutdown
StopRequested(c) == watcherPc[c] \notin {"unstarted", "parked"}
\* Shutdown has returned to the watcher
StopReturned(c) == stopResult[c] # "none"
\* the bind call of Serve invocation c started a listener
Bound(c) == servePc[c] \in {"serving", "returned"}
Exited == exit # "running"

\* C1: Wait returns only after done has fired, done fires only after a
\* Shutdown call has returned to the watcher that fires it, Shutdown
\* returns only after it was requested, and it is requested only after the
\* cancellation was observed.
ShutdownOrdering ==
    /\ (\E w \in Waiters : waitPc[w] = "returned") => webDone = "closed"
    /\ webDone = "closed" =>
         \E c \in Calls : watcherPc[c] = "closed" /\ StopReturned(c)
    /\ \A c \in Calls : watcherPc[c] \in {"closed", "panicked"} => StopReturned(c)
    /\ \A c \in Calls : StopReturned(c) => StopRequested(c)
    /\ \A c \in Calls : StopRequested(c) => ctxDone

\* C1 witness: after a cancellation a Wait caller has returned.
WaitReturnedAfterCancel ==
    ctxDone /\ \E w \in Waiters : waitPc[w] = "returned"

ServeReturnsWhileListening ==
    \A c \in Calls : c \in listening => servePc[c] = "returned"

\* C3 amended: Serve blocks. While the listener it started accepts
\* connections Serve has not returned; it returns only after the
\* cancellation fired and a Shutdown call closed its listener.
ServeBlocks ==
    /\ \A c \in Calls : c \in listening => servePc[c] = "serving"
    /\ \A c \in Calls : servePc[c] = "returned" =>
         /\ ctxDone
         /\ \E d \in Calls : StopRequested(d)

\* C3 witness: a Serve invocation has returned.
ServeHasReturned == \E c \in Calls : servePc[c] = "returned"

\* C4 as stated: the TLS bind is made if and only if both paths are
\* non-empty, the clear-text bind in every other case.
TLSOnlyWithBothPaths ==
    \A c \in Calls : bindCall[c] # "none" =>
        (bindCall[c] = "ListenAndServeTLS"
            <=> (tlsCertPath # "" /\ tlsKeyPath # ""))

\* C4 amended: the clear-text bind is made if and only if both paths are
\* empty; with at least one path the TLS bind is made. A listener bound with
\* TLS has both paths, and with exactly one path no listener is bound.
TLSSelection ==
    \A c \in Calls :
        /\ bindCall[c] # "none" =>
             (bindCall[c] = "ListenAndServe"
                 <=> (tlsCertPath = "" /\ tlsKeyPath = ""))
        /\ Bound(c) => bindCall[c] # "none"
        /\ (Bound(c) /\ bindCall[c] = "ListenAndServeTLS") =>
             (tlsCertPath # "" /\ tlsKeyPath # "")
        /\ ((tlsCertPath = "") # (tlsKeyPath = "")) => ~Bound(c)

\* C4 witness: with only the certificate path configured Serve has made the
\* TLS bind call, which failed fatally.
OnePathTLSBindFatal ==
    /\ tlsCertPath # "" /\ tlsKeyPath = ""
    /\ \E c \in Calls : bindCall[c] = "ListenAndServeTLS"
    /\ exit = "fatal"

\* C9 as stated: over any sequence of Serve calls, Wait calls and
\* cancellation no second close of the done channel faults.
NoDoubleClose == exit # "panic"

\* C9 amended: the close of the done channel succeeds at most once, and on
\* an instance whose Serve was called at most once no second close is
\* attempted; a second close, by the watcher of a further Serve call, is a
\* panic and not a no-op.
DoneOnce ==
    /\ Cardinality({c \in Calls : watcherPc[c] = "closed"}) <= 1
    /\ Cardinality(Started) <= 1 => exit # "panic"
    /\ exit = "panic" =>
         /\ webDone = "closed"
         /\ \E c \in Calls : watcherPc[c] = "panicked"

\* C9 witness: one Serve call, done has fired, its watcher has ended and
\* Serve has returned.
SingleServeDone ==
    /\ Cardinality(Started) = 1
    /\ \E c \in Calls : watcherPc[c] = "closed" /\ servePc[c] = "returned"
    /\ webDone = "closed"

\* C10: once the done notification has fired no listener starts accepting
\* connections (so that done implies the listener has stopped for good).
DoneThenNeverAccepting ==
    [][webDone = "closed" => listening' \subseteq listening]_vars

(***************************************************************************)
(* newApp: the peer loop and the pool build (app.go:103-129).              *)
(***************************************************************************)
\* float64 values: a number or NaN; set = FALSE is a key with no value.
Num(n) == [set |-> TRUE, nan |-> FALSE, val |-> n]
NaN == [set |-> TRUE, nan |-> TRUE, val |-> 0]
Unset == [set |-> FALSE, nan |-> FALSE, val |-> 0]

Addresses == {"n1", "n2"}
CfgWeights == {Unset, NaN, Num(-1), Num(0), Num(2)}
PeerIdx == 0..(MaxPeers - 1)

\* a.cfg.GetString(cfgPeers + "." + strconv.Itoa(j) + ".address"): the
\* empty string for a key that has no value.
GetAddress(j) == IF j \in PeerIdx THEN peerAddress[j] ELSE ""

\* a.cfg.GetFloat64(cfgPeers + "." + strconv.Itoa(j) + ".weight"): 0 for a
\* key that has no value.
GetWeight(j) ==
    IF j \in PeerIdx /\ peerWeight[j].set THEN peerWeight[j] ELSE Num(0)

\* Go's weight <= 0 on float64: false when weight is NaN.
LeqZero(w) == ~w.nan /\ w.val <= 0

\* if weight <= 0 { weight = 1 }
Normalize(w) == IF LeqZero(w) THEN Num(1) ELSE w

InitNewApp ==
    /\ peerAddress \in [PeerIdx -> Addresses \cup {""}]
    /\ peerWeight \in [PeerIdx -> CfgWeights]
    /\ i = 0
    /\ nodes = <<>>
    /\ newAppPc = "loop"

\* Variant of PeerLoop: an empty address is skipped (continue) while
\* configured indices remain, instead of ending the loop.
PeerLoopSkip ==
    /\ UNCHANGED notNewApp
    /\ newAppPc = "loop"
    /\ LET address == GetAddress(i)
           weight == GetWeight(i)
       IN IF address = "" /\ i \notin PeerIdx
            THEN /\ newAppPc' = "build"
                 /\ UNCHANGED <<i, nodes>>
            ELSE IF address = ""
              THEN /\ i' = i + 1
                   /\ UNCHANGED <<nodes, newAppPc>>
              ELSE /\ nodes' = Append(nodes, [address |-> address,
                                              weight |-> Normalize(weight)])
                   /\ i' = i + 1
                   /\ UNCHANGED newAppPc
    /\ UNCHANGED <<peerAddress, peerWeight>>

\* One iteration of for i := 0; ; i++ { ... }.
PeerLoop ==
    /\ UNCHANGED notNewApp
    /\ newAppPc = "loop"
    /\ LET address == GetAddress(i)
           weight == GetWeight(i)
       IN IF address = ""
            THEN /\ newAppPc' = "build"
                 /\ UNCHANGED <<i, nodes>>
            ELSE /\ nodes' = Append(nodes, [address |-> address,
                                            weight |-> Normalize(weight)])
                 /\ i' = i + 1
                 /\ UNCHANGED newAppPc
    /\ UNCHANGED <<peerAddress, peerWeight>>

\* a.pool, err = pb.Build(ctx, opts); an error is fatal.
Build ==
    /\ UNCHANGED notNewApp
    /\ newAppPc = "build"
    /\ \E err \in BOOLEAN : newAppPc' = IF err THEN "fatal" ELSE "built"
    /\ UNCHANGED <<peerAddress, peerWeight, i, nodes>>

NextNewApp == PeerLoop \/ Build

(***************************************************************************)
(* Properties of newApp's peer loop.                                       *)
(***************************************************************************)
\* the smallest index whose address is empty
FirstGap ==
    CHOOSE k \in 0..MaxPeers :
        /\ GetAddress(k) = ""
        /\ \A j \in 0..(k - 1) : GetAddress(j) # ""

GtZero(w) == ~w.nan /\ w.val > 0

\* C6: with k the smallest index whose address is empty, the nodes added
\* are the peers at the indices below k, in index order, never a peer at an
\* index above k; once the loop has ended they are exactly those, and the
\* loop ends in the pool build, not in an error (only Build is fatal).
ContiguousDiscovery ==
    /\ Len(nodes) <= FirstGap
    /\ \A j \in 1..Len(nodes) : nodes[j].address = GetAddress(j - 1)
    /\ newAppPc = "loop" => i = Len(nodes)
    /\ newAppPc # "loop" => Len(nodes) = FirstGap

\* C6 witness: the pool is built from a configuration with a gap at k >= 1
\* and a configured peer above the gap.
BuiltWithGap ==
    /\ newAppPc = "built"
    /\ FirstGap >= 1
    /\ \E j \in PeerIdx : j > FirstGap /\ peerAddress[j] # ""
    /\ Len(nodes) = FirstGap

\* C7: for every peer added, a configured weight that is absent or <= 0 is
\* recorded as exactly 1, a configured weight w > 0 is recorded as w, and so
\* every recorded weight is strictly positive.
WeightNormalization ==
    \A j \in 1..Len(nodes) :
        LET w == peerWeight[j - 1]
            r == nodes[j].weight
        IN /\ (~w.set \/ LeqZero(w)) => r = Num(1)
           /\ (w.set /\ GtZero(w)) => r = w
           /\ GtZero(r)

(***************************************************************************)
(* settings(): flags, environment, configuration file (misc.go:89-203).    *)
(***************************************************************************)
\* defaultConnectTimeout, in seconds: the default of the connect_timeout flag
defaultConnectTimeout == 30
\* v.SetDefault(cfgWebReadBufferSize, 4096)
defaultWebReadBufferSize == 4096

cfgConTimeout == "connect_timeout"
cfgWebReadBufferSize == "web.read_buffer_size"
Keys == {cfgConTimeout, cfgWebReadBufferSize}
\* the keys among Keys that a flag is defined for
FlagKeys == {cfgConTimeout}
FlagDefaults == [k \in FlagKeys |-> defaultConnectTimeout]
SetDefaults == [k \in {cfgWebReadBufferSize} |-> defaultWebReadBufferSize]

Vals == 1..MaxVal
\* the maps that give a value to some of the keys K
Maps(K) == UNION {[D -> Vals] : D \in SUBSET K}
EmptyMap == [k \in {} |-> 0]

\* osArgs: help, version - the flag is given; bad - the vector holds an
\* unknown or malformed flag; flags - the values given by flags; config -
\* "unset" when --config is not given, else what lies at the path given.
InitSettings ==
    /\ osArgs \in [help : BOOLEAN, version : BOOLEAN, bad : BOOLEAN,
                   flags : Maps(FlagKeys),
                   config : {"unset", "missing", "malformed", "valid"}]
    /\ environ \in [vals : Maps(Keys), config : BOOLEAN]
    /\ cfgFile \in Maps(Keys)
    /\ v = [defaults |-> EmptyMap, pflags |-> EmptyMap, config |-> EmptyMap]
    /\ settingsPc = "start"
    /\ stdout = "none"
    /\ exitCode = -1

\* Variant of Get: the file is looked up before the environment.
GetFileFirst(k) ==
    IF k \in DOMAIN v.pflags THEN v.pflags[k]
    ELSE IF k \in DOMAIN v.config THEN v.config[k]
    ELSE IF k \in DOMAIN environ.vals THEN environ.vals[k]
    ELSE IF k \in DOMAIN v.defaults THEN v.defaults[k]
    ELSE IF k \in DOMAIN FlagDefaults THEN FlagDefaults[k]
    ELSE 0

\* The lookup of the viper store built by settings(): a flag that was given
\* (BindPFlags), then the environment (AutomaticEnv), then the file
\* (ReadConfig), then SetDefault, then the flag's default; the zero value
\* otherwise.
Get(k) ==
    IF k \in DOMAIN v.pflags THEN v.pflags[k]
    ELSE IF k \in DOMAIN environ.vals THEN environ.vals[k]
    ELSE IF k \in DOMAIN v.config THEN v.config[k]
    ELSE IF k \in DOMAIN v.defaults THEN v.defaults[k]
    ELSE IF k \in DOMAIN FlagDefaults THEN FlagDefaults[k]
    ELSE 0

\* v.IsSet(cmdConfig): --config was given, or HTTP_GW_CONFIG is set.
IsSetConfig == osArgs.config # "unset" \/ environ.config

\* viper.New ... flags defined ... v.SetDefault ... v.BindPFlags(flags)
Setup ==
    /\ UNCHANGED notSettings
    /\ settingsPc = "start"
    /\ v' = [v EXCEPT !.defaults = SetDefaults]
    /\ settingsPc' = "bound"
    /\ UNCHANGED <<osArgs, environ, cfgFile, stdout, exitCode>>

\* flags.Parse(os.Args) on a flag set made with pflag.ExitOnError: a parse
\* error prints it and exits with status 2.
Parse ==
    /\ UNCHANGED notSettings
    /\ settingsPc = "bound"
    /\ IF osArgs.bad
         THEN /\ settingsPc' = "exited"
              /\ exitCode' = 2
              /\ stdout' = "parse error"
              /\ UNCHANGED v
         ELSE /\ settingsPc' = "parsed"
              /\ v' = [v EXCEPT !.pflags = osArgs.flags]
              /\ UNCHANGED <<stdout, exitCode>>
    /\ UNCHANGED <<osArgs, environ, cfgFile>>

\* Variant of Switch: the version case is missing.
SwitchHelpOnly ==
    /\ UNCHANGED notSettings
    /\ settingsPc = "parsed"
    /\ IF osArgs.help
         THEN /\ stdout' = "help"
              /\ exitCode' = 0
              /\ settingsPc' = "exited"
         ELSE /\ settingsPc' = "config"
              /\ UNCHANGED <<stdout, exitCode>>
    /\ UNCHANGED <<osArgs, environ, cfgFile, v>>

\* switch { case *help: ...; os.Exit(0)  case *version: ...; os.Exit(0) }
Switch ==
    /\ UNCHANGED notSettings
    /\ settingsPc = "parsed"
    /\ IF osArgs.help
         THEN /\ stdout' = "help"
              /\ exitCode' = 0
              /\ settingsPc' = "exited"
         ELSE IF osArgs.version
           THEN /\ stdout' = "version"
                /\ exitCode' = 0
                /\ settingsPc' = "exited"
           ELSE /\ settingsPc' = "config"
                /\ UNCHANGED <<stdout, exitCode>>
    /\ UNCHANGED <<osArgs, environ, cfgFile, v>>

\* if v.IsSet(cmdConfig) { os.Open(*config) ... v.ReadConfig(cfgFile) },
\* each error a panic (exit status 2); then the peers, and return v.
\* *config is the flag's value: the empty path when --config is not given.
ReadConfig ==
    /\ UNCHANGED notSettings
    /\ settingsPc = "config"
    /\ IF ~IsSetConfig
         THEN /\ settingsPc' = "returned"
              /\ UNCHANGED <<v, exitCode>>
         ELSE IF osArgs.config = "valid"
           THEN /\ v' = [v EXCEPT !.config = cfgFile]
                /\ settingsPc' = "returned"
                /\ UNCHANGED exitCode
           ELSE /\ settingsPc' = "panicked"
                /\ exitCode' = 2
                /\ UNCHANGED v
    /\ UNCHANGED <<osArgs, environ, cfgFile, stdout>>

NextSettings == Setup \/ Parse \/ Switch \/ ReadConfig

(***************************************************************************)
(* Properties of settings().                                               *)
(***************************************************************************)
\* the default of a key: every key of Keys has one
HasDefault(k) == k \in DOMAIN SetDefaults \/ k \in DOMAIN FlagDefaults
InEnv(k) == k \in DOMAIN environ.vals
ByFlag(k) == k \in DOMAIN osArgs.flags
\* the file at the --config path is read and gives k a value
InFile(k) == osArgs.config = "valid" /\ k \in DOMAIN cfgFile

\* C5 as stated: a key with a default, an environment value and a flag or
\* file value resolves to the flag value, or to the file value.
FlagOrFileOverEnv ==
    settingsPc = "returned" =>
        \A k \in Keys :
            (HasDefault(k) /\ InEnv(k) /\ (ByFlag(k) \/ InFile(k))) =>
                Get(k) = IF ByFlag(k) THEN osArgs.flags[k] ELSE cfgFile[k]

\* C5 amended: a key with a default and an environment value resolves to
\* the value of its flag when the flag is given, and to the environment
\* value otherwise, also when the file gives the key a value; the file
\* value overrides only the default.
Precedence ==
    settingsPc = "returned" =>
        \A k \in Keys :
            /\ (HasDefault(k) /\ InEnv(k) /\ ByFlag(k)) =>
                 Get(k) = osArgs.flags[k]
            /\ (HasDefault(k) /\ InEnv(k) /\ ~ByFlag(k)) =>
                 Get(k) = environ.vals[k]
            /\ (HasDefault(k) /\ ~InEnv(k) /\ ~ByFlag(k) /\ InFile(k)) =>
                 Get(k) = cfgFile[k]

\* C5 witness: settings() has returned a store in which a key has a
\* default, an environment value and a different file value.
EnvAndFileDiffer ==
    /\ settingsPc = "returned"
    /\ \E k \in Keys :
         /\ HasDefault(k) /\ InEnv(k) /\ InFile(k) /\ ~ByFlag(k)
         /\ environ.vals[k] # cfgFile[k]

\* what settings() does for a help or version request that succeeds: it
\* never reaches the configuration file or returns a store, and it ends by
\* printing and exiting with status 0
EndsInExitZero ==
    /\ settingsPc \in {"start", "bound", "parsed", "exited"}
    /\ settingsPc = "exited" =>
         (exitCode = 0 /\ stdout \in {"help", "version"})

\* C8 as stated: with the help or the version flag in the argument vector
\* settings() prints and exits with status 0, whatever else is invalid (an
\* unknown or malformed flag, a missing or malformed file).
HelpVersionAlwaysExitZero ==
    (osArgs.help \/ osArgs.version) => EndsInExitZero

\* C8 amended: with the help or the version flag in an argument vector that
\* parses, settings() prints and exits with status 0, whatever the
\* configuration file is; a vector that does not parse exits with status 2
\* before help or version is looked at.
HelpVersionExitZero ==
    /\ ((osArgs.help \/ osArgs.version) /\ ~osArgs.bad) => EndsInExitZero
    /\ (osArgs.bad /\ settingsPc \notin {"start", "bound"}) =>
         (settingsPc = "exited" /\ exitCode = 2)

\* C8 witness: version was asked together with a --config path where no
\* file is, and settings() has exited with status 0.
VersionWithMissingFile ==
    /\ osArgs.version /\ ~osArgs.help /\ ~osArgs.bad
    /\ osArgs.config = "missing"
    /\ settingsPc = "exited" /\ exitCode = 0 /\ stdout = "version"

(***************************************************************************)
(* Specifications. Each part runs with the other parts at rest.            *)
(***************************************************************************)
RestLife ==
    /\ tlsCertPath = ""
    /\ tlsKeyPath = ""
    /\ ctxDone = FALSE
    /\ webDone = "open"
    /\ servePc = [c \in Calls |-> "idle"]
    /\ watcherPc = [c \in Calls |-> "unstarted"]
    /\ stopResult = [c \in Calls |-> "none"]
    /\ bindCall = [c \in Calls |-> "none"]
    /\ listening = {}
    /\ waitPc = [w \in Waiters |-> "idle"]
    /\ exit = "running"

RestNewApp ==
    /\ peerAddress = [j \in PeerIdx |-> ""]
    /\ peerWeight = [j \in PeerIdx |-> Unset]
    /\ i = 0
    /\ nodes = <<>>
    /\ newAppPc = "loop"

RestSettings ==
    /\ osArgs = [help |-> FALSE, version |-> FALSE, bad |-> FALSE,
                 flags |-> EmptyMap, config |-> "unset"]
    /\ environ = [vals |-> EmptyMap, config |-> FALSE]
    /\ cfgFile = EmptyMap
    /\ v = [defaults |-> EmptyMap, pflags |-> EmptyMap, config |-> EmptyMap]
    /\ settingsPc = "start"
    /\ stdout = "none"
    /\ exitCode = -1

Init == InitLife /\ RestNewApp /\ RestSettings
Next == NextLife
Spec == Init /\ [][Next]_vars

\* The Go scheduler runs every goroutine that can take a step: a watcher
\* whose Shutdown call has returned goes on to close(a.webDone), and a Wait
\* caller whose receive can complete returns. ctx is cancelled from outside,
\* Serve and Wait are called by the caller, and Shutdown has no timeout of
\* its own: these carry no fairness.
Fairness ==
    /\ \A c \in Calls : WF_vars(WatcherClose(c))
    /\ \A w \in Waiters : WF_vars(WaitReturn(w))
\* Shutdown does not read the TLS paths (they only select the bind call), so
\* the runs with fairness start from the clear-text configuration.
FairInit == Init /\ tlsCertPath = "" /\ tlsKeyPath = ""
FairSpec == FairInit /\ [][Next]_vars /\ Fairness

InitPool == RestLife /\ InitNewApp /\ RestSettings
NextPool == NextNewApp
SpecNewApp == InitPool /\ [][NextPool]_vars

InitCfg == RestLife /\ RestNewApp /\ InitSettings
NextCfg == NextSettings
SpecSettings == InitCfg /\ [][NextCfg]_vars

====
